---- MODULE Spec2Model ----
(***************************************************************************)
(* State-machine model of the asset upload plugin WarpDrivePlugin of       *)
(* packages/vite-plugin-warpdrive/dist/index.mjs: the closure state of one *)
(* plugin instance (tracked, manifest, pendingUploads, resolvedConfig,     *)
(* cleanedRemote), its hooks (renderBuiltUrl, configResolved,              *)
(* generateBundle, closeBundle) and the asynchronous per-asset tasks that  *)
(* closeBundle starts and joins with Promise.all.                          *)
(*                                                                         *)
(* The upload provider and the file system are the environment: every      *)
(* awaited call (cleanPrefix, shouldSkipUpload, upload, rm) completes in a *)
(* step of its own, with either outcome.                                   *)
(*                                                                         *)
(* Spec follows the upload phase.  SpecRewrite follows the filter and the   *)
(* URL rewriting, SpecPrefix the clean step under every prefix,            *)
(* SpecManifest the manifest and SpecDelete the tasks with delete on; the  *)
(* builds of SpecRewrite and SpecManifest record what renderBuiltUrl,      *)
(* generateBundle and closeBundle returned.  SpecS3 is shouldSkipUpload of *)
(* the provider that createS3Provider returns.                             *)
(***************************************************************************)
EXTENDS Integers, Sequences, FiniteSets, TLC

\* ------------------------------------------------------------------ bounds

\* closeBundle invocations made on one plugin instance
MaxClose == 2
\* entries the pendingUploads array may hold
MaxPending == 2
\* tasks started by all closeBundle invocations together
MaxTasks == 2

\* ------------------------------------------------------------------ inputs

\* file names of build outputs
Files == {"a.png", "b.png"}

\* A string the code takes apart is a sequence of pieces, a "/" or a run of
\* other characters. options.prefix ?? "remote-assets" (line 71): the scopes a
\* build is configured with, bare or with slashes around, and the default
Prefixes ==
    { <<>>, <<"/">>, <<"cdn">>, <<"/", "cdn", "/">>, <<"remote-assets">> }

\* ctx.hostType of a renderBuiltUrl call
Ctxs == {"js", "css"}

\* a matcher of options.include: a RegExp or a predicate, and the file names
\* for which matcher.test(filename), or matcher(filename), is true
Matcher(kind, accepts) == [kind |-> kind, accepts |-> accepts]

Matchers ==
    { Matcher("RegExp", {"a.png"}),
      Matcher("RegExp", Files),
      Matcher("function", {"b.png"}) }

\* matchers in one include list
MaxInclude == 2

\* options.include ?? []
Includes == UNION { [1..n -> Matchers] : n \in 0..MaxInclude }

\* options.includeBy: absent, or a predicate with the pairs of file name and
\* ctx.hostType for which it returns true
NoIncludeBy == [present |-> FALSE, accepts |-> {}]

IncludeBys ==
    { NoIncludeBy }
    \cup { [present |-> TRUE, accepts |-> s] :
             s \in { {}, Files \X Ctxs, Files \X {"js"}, {"a.png"} \X Ctxs } }

\* an output of the bundle: its file name and its type
Output(f, t) == [fileName |-> f, type |-> t]

\* the bundles handed to generateBundle, in Object.entries order: the assets
\* alone or together, and each of them beside a chunk
Bundles ==
    { <<Output("a.png", "asset")>>,
      <<Output("b.png", "asset")>>,
      <<Output("a.png", "asset"), Output("b.png", "asset")>>,
      <<Output("a.png", "chunk"), Output("b.png", "asset")>>,
      <<Output("a.png", "asset"), Output("b.png", "chunk")>> }

\* options.provider: none configured, a provider with the required methods
\* only (upload, getPublicUrl), or one with cleanPrefix and shouldSkipUpload
\* as well, as createS3Provider returns
Providers == {"none", "minimal", "s3"}

\* the options object handed to WarpDrivePlugin
Options ==
    [ provider : Providers,
      prefix : Prefixes,
      delete : BOOLEAN,
      clean : BOOLEAN,
      skipNotModified : BOOLEAN,
      dryRun : BOOLEAN,
      manifest : BOOLEAN,
      include : Includes,
      includeBy : IncludeBys ]

VARIABLES
    options,         \* the options object WarpDrivePlugin was called with
    resolvedConfig,  \* TRUE once configResolved stored the config
    tracked,         \* the tracking Map: file name -> {key, url}
    manifest,        \* the manifest array
    pendingUploads,  \* the pendingUploads array
    cleanedRemote,   \* the cleanedRemote flag
    emitted,         \* TRUE once generateBundle emitted remote-assets.manifest.json
    listed,          \* manifest.length when the manifest file was last emitted, 0 before
    runs,            \* one record per closeBundle invocation, in call order
    tasks,           \* one record per async task pushed to uploads, in start order
    observed,        \* TRUE when the build records what its calls of
                     \* renderBuiltUrl and generateBundle came to
    rewrites,        \* the renderBuiltUrl calls recorded, with what they returned
    bundled,         \* the last generateBundle call recorded
    closed,          \* the last closeBundle call recorded
    s3call,          \* a shouldSkipUpload call on the provider of createS3Provider
    s3clean,         \* a cleanPrefix call on the provider of createS3Provider
    remote,          \* the keys of the objects in the bucket when the build starts
    indicator,       \* a StatusIndicator component: its status prop, refs and timers
    chatStore,       \* the chat store: its refs and its sendMessage calls
    chatInterface,   \* a ChatInterface component: its messages prop, refs and timers
    twin             \* the calls made on the plugin and, once a second plugin has
                     \* taken its place, what the first one had come to

\* the state of what is modelled beside the plugin and the shouldSkipUpload
\* call
others == <<s3clean, remote, indicator, chatStore, chatInterface>>

\* what is recorded of the calls, beside the state of the plugin
recorded == <<observed, rewrites, bundled, closed, s3call, others, twin>>

vars == <<options, resolvedConfig, tracked, manifest, pendingUploads,
          cleanedRemote, emitted, listed, runs, tasks, recorded>>

\* ---------------------------------------------------------- pure functions

\* const shouldDeleteLocalAsset = options.delete !== false
shouldDeleteLocalAsset == options.delete
\* const shouldCleanRemote = options.clean !== false
shouldCleanRemote == options.clean
\* const shouldSkipNotModified = options.skipNotModified !== false
shouldSkipNotModified == options.skipNotModified
\* const isDryRun = options.dryRun === true
isDryRun == options.dryRun

\* replace(/^\/*/, ""): the leading slashes go
RECURSIVE StripLeading(_)
StripLeading(s) ==
    IF s # <<>> /\ Head(s) = "/" THEN StripLeading(Tail(s)) ELSE s

\* replace(/\/*$/, ""): the trailing slashes go
RECURSIVE StripTrailing(_)
StripTrailing(s) ==
    IF s # <<>> /\ s[Len(s)] = "/" THEN StripTrailing(SubSeq(s, 1, Len(s) - 1)) ELSE s

\* normalizePrefix(prefix), lines 210-212
normalizePrefix(p) == StripTrailing(StripLeading(p))

\* the string the pieces spell
RECURSIVE Text(_)
Text(s) == IF s = <<>> THEN "" ELSE Head(s) \o Text(Tail(s))

\* const prefix = normalizePrefix(options.prefix ?? "remote-assets")
prefix == Text(normalizePrefix(options.prefix))

\* if (!options.provider)
hasProvider == options.provider # "none"
\* typeof options.provider.cleanPrefix === "function"
hasCleanPrefix == options.provider = "s3"
\* typeof options.provider.shouldSkipUpload === "function"
hasShouldSkipUpload == options.provider = "s3"

\* lines 84-85: a RegExp is tested on the file name, a predicate is called
\* with it
Matches(matcher, filename) ==
    IF matcher.kind = "RegExp"
    THEN filename \in matcher.accepts
    ELSE filename \in matcher.accepts

\* variant of shouldHandle: includeBy, when given, decides alone
shouldHandle_IncludeByAlone(filename, ctx) ==
    IF options.includeBy.present
    THEN <<filename, ctx>> \in options.includeBy.accepts
    ELSE \E k \in 1..Len(options.include) : Matches(options.include[k], filename)

\* shouldHandle(filename, ctx), lines 82-89
shouldHandle(filename, ctx) ==
    IF ~(\E k \in 1..Len(options.include) : Matches(options.include[k], filename))
    THEN FALSE
    ELSE IF options.includeBy.present
    THEN <<filename, ctx>> \in options.includeBy.accepts
    ELSE TRUE

\* variant of KeyOf: the prefix is joined without asking whether it is empty
KeyOf_AlwaysJoined(filename) == prefix \o "/" \o filename

\* const key = prefix ? `${prefix}/${filename}` : filename
KeyOf(filename) == IF prefix # "" THEN prefix \o "/" \o filename ELSE filename

\* getPublicUrl(key) of the provider: joinUrl(publicBaseUrl, key)
PublicBaseUrl == "https://cdn.example.com"
getPublicUrl(key) == PublicBaseUrl \o "/" \o key

\* ------------------------------------------------------------------- state

\* what a generateBundle call is recorded as: how it ended ("skipped" at line
\* 116 or 120, "threw" with contentTypeBy, "emitted" the manifest file or
\* "returned" without), the size of the tracking map when it was called and
\* manifest.length when it ended
Bundled(result, size, entries) == [result |-> result, tracked |-> size, entries |-> entries]

\* no generateBundle call recorded
NotBundled == Bundled("notCalled", 0, 0)

\* The provider of createS3Provider (lines 9-41). What readFile(localPath)
\* comes to: the contents of the file, or a rejection
LocalFiles ==
    { [kind |-> "rejects", data |-> "none"],
      [kind |-> "data", data |-> "d1"],
      [kind |-> "data", data |-> "d2"] }

\* createHash("md5").update(data).digest("hex"), character by character
Md5Hex(data) == IF data = "d1" THEN <<"a", "1">> ELSE <<"b", "2">>

\* what client.getEtag(key) comes to: a rejection, no tag, or a tag, character
\* by character (quoted or bare, in either case, of a multipart upload, of
\* other contents, weak, empty)
Etag(kind, etag) == [kind |-> kind, etag |-> etag]

Etags ==
    { Etag("rejects", <<>>), Etag("null", <<>>) }
    \cup { Etag("string", e) :
             e \in { <<>>,
                     <<"\"", "\"">>,
                     <<"a", "1">>,
                     <<"\"", "a", "1", "\"">>,
                     <<"\"", "A", "1", "\"">>,
                     <<"\"", "\"", "a", "1", "\"">>,
                     <<"\"", "a", "1", "-", "2", "\"">>,
                     <<"\"", "b", "2", "\"">>,
                     <<"\"", "B", "2", "\"">>,
                     <<"W", "/", "\"", "a", "1", "\"">> } }

\* a shouldSkipUpload(localPath, key) call: options.skipNotModified of the
\* provider, what readFile and getEtag come to, and how the call ended
\* ("notCalled", or "true", "false", "rejects")
S3Calls ==
    [ skipNotModified : BOOLEAN, file : LocalFiles, etag : Etags, result : {"notCalled"} ]

\* no shouldSkipUpload call on the provider of createS3Provider
NoS3Call ==
    [ skipNotModified |-> TRUE, file |-> [kind |-> "rejects", data |-> "none"],
      etag |-> Etag("null", <<>>), result |-> "notCalled" ]

\* the keys of objects in the bucket
RemoteKeys == {"cdn/a.png", "cdn/b.png", "remote-assets/a.png"}

\* objects one answer of client.listObjects may hold
MaxListed == 2

\* what client.listObjects comes to: a rejection, no array, or an array of
\* objects, of which the Key is kept
Listing(kind, keys) == [kind |-> kind, keys |-> keys]

Listings ==
    { Listing("rejects", <<>>), Listing("undefined", <<>>) }
    \cup { Listing("array", ks) :
             ks \in { s \in UNION { [1..n -> RemoteKeys] : n \in 0..MaxListed } :
                        \A i, j \in 1..Len(s) : i # j => s[i] # s[j] } }

\* a cleanPrefix(prefix) call: its argument, what listObjects and deleteObjects
\* come to, the calls it made on the client, in order, and how it ended
\* ("notCalled", or "resolves", "rejects")
S3Cleans ==
    [ prefix : Prefixes, listing : Listings, deleteObjects : {"resolves", "rejects"},
      calls : {<<>>}, result : {"notCalled"} ]

\* no cleanPrefix call on the provider of createS3Provider
NoS3Clean ==
    [ prefix |-> <<>>, listing |-> Listing("undefined", <<>>), deleteObjects |-> "resolves",
      calls |-> <<>>, result |-> "notCalled" ]

\* The page of apps/stage-web. What the status prop of StatusIndicator is
\* given: statuses of STATUS_CONFIGS, nothing, and a string that is no status
StatusProps == {"online", "thinking", "error", "undefined", "paused"}

\* the keys of STATUS_CONFIGS
AIStatuses == {"online", "thinking", "responding", "offline", "error"}

\* normalizeStatus(status): status && status in STATUS_CONFIGS ? status : 'offline'
normalizeStatus(status) == IF status \in AIStatuses THEN status ELSE "offline"

\* a StatusIndicator set up with a status prop: its refs (currentStatus,
\* previousStatus, isTransitioning), the statuses its pending 100 ms timers
\* will set, in the order they were armed, the number of its pending 200 ms
\* timers, and the number of changes of the prop so far
Indicator(status) ==
    [ status |-> status,
      currentStatus |-> normalizeStatus(status),
      previousStatus |-> normalizeStatus(status),
      isTransitioning |-> FALSE,
      setting |-> <<>>,
      ending |-> 0,
      changes |-> 0 ]

\* the component with the default of the prop
NoIndicator == Indicator("offline")

\* a message: its id, role and status
Message(id, role, status) == [id |-> id, role |-> role, status |-> status]

\* the chat store right after its setup: messages, aiStatus, isSending and
\* isTyping, and one record per sendMessage call that went past its first
\* line, with the index of its user message and the place it awaits at
\* ("thinking", "responding", or "done")
NoChatStore ==
    [ messages |-> <<>>, aiStatus |-> "online", isSending |-> FALSE, isTyping |-> FALSE,
      calls |-> <<>> ]

\* the messages ref of the page (test.vue lines 21-29)
PageMessages == << Message(<<"init", 1>>, "assistant", "sent") >>

\* what the messages prop is given at first: nothing, the messages of the
\* page, or a message without role and status
FirstMessages ==
    { <<>>, PageMessages, << Message(<<"init", 1>>, "undefined", "undefined") >> }

\* normalizeMessage(message) on the fields kept: a missing role is
\* 'assistant', a missing status is 'sent'
normalizeMessage(m) ==
    [ id |-> m.id,
      role |-> IF m.role = "undefined" THEN "assistant" ELSE m.role,
      status |-> IF m.status = "undefined" THEN "sent" ELSE m.status ]

\* a ChatInterface set up with a messages and a disabled prop: the props, the
\* refs messageList, inputText and isSending, the ids its pending 500 ms
\* timers look for, in the order they were armed, the number of messages it
\* sent and the number of replies the page has pushed
ChatInterface(messages, disabled) ==
    [ messages |-> messages,
      disabled |-> disabled,
      messageList |-> [i \in 1..Len(messages) |-> normalizeMessage(messages[i])],
      inputText |-> "",
      isSending |-> FALSE,
      timers |-> <<>>,
      sent |-> 0,
      replies |-> 0 ]

NoChatInterface == ChatInterface(<<>>, FALSE)

\* the components of the page and the store are not followed
NoPage ==
    /\ indicator = NoIndicator
    /\ chatStore = NoChatStore
    /\ chatInterface = NoChatInterface

\* a call of a hook: its name and its arguments (a file name and ctx.hostType,
\* or a bundle and the output at which contentTypeBy rejects)
Call(hook, filename, ctx, bundle, failAt) ==
    [hook |-> hook, fileName |-> filename, ctx |-> ctx, bundle |-> bundle, failAt |-> failAt]

\* what a plugin instance has come to: the calls made on it and what they
\* returned, and its tracking map, manifest and pending uploads
Instance(calls, returned, map, entries, pending) ==
    [calls |-> calls, returned |-> returned, tracked |-> map, manifest |-> entries,
     pendingUploads |-> pending]

NoInstance == Instance(<<>>, <<>>, [f \in {} |-> 0], <<>>, <<>>)

\* the calls are not followed (phase 0)
NoTwin == [phase |-> 0, calls |-> <<>>, returned |-> <<>>, first |-> NoInstance]

\* the first of two plugin instances (phase 1), no call made yet
FirstTwin == [phase |-> 1, calls |-> <<>>, returned |-> <<>>, first |-> NoInstance]

\* twin once a call has been made and has returned, where calls are followed
Logged(call, result) ==
    IF twin.phase = 0 THEN twin
    ELSE [twin EXCEPT !.calls = Append(@, call), !.returned = Append(@, result)]

\* the plugin right after WarpDrivePlugin(o) returned (lines 77-81), in a
\* build that records its calls or not
WarpDrivePlugin(o, obs) ==
    /\ options = o
    /\ resolvedConfig = FALSE
    /\ tracked = [f \in {} |-> 0]
    /\ manifest = <<>>
    /\ pendingUploads = <<>>
    /\ cleanedRemote = FALSE
    /\ emitted = FALSE
    /\ listed = 0
    /\ runs = <<>>
    /\ tasks = <<>>
    /\ observed = obs
    /\ rewrites = {}
    /\ bundled = NotBundled
    /\ closed = "notCalled"

\* the plugin constructed, and its provider not called
Constructed(o, obs) ==
    /\ WarpDrivePlugin(o, obs)
    /\ s3call = NoS3Call
    /\ s3clean = NoS3Clean
    /\ remote = {}
    /\ twin = NoTwin
    /\ NoPage

\* the options of the builds whose upload phase is followed: closeBundle
\* reads neither options.manifest nor the filter, which accepts every file
\* name or none, and the prefix is empty or a scope
UploadOptions ==
    { o \in Options :
        /\ ~o.manifest
        /\ o.prefix \in { <<>>, <<"cdn">> }
        /\ o.include \in { <<>>, <<Matcher("RegExp", Files)>> }
        /\ o.includeBy = NoIncludeBy }

Init == \E o \in UploadOptions : Constructed(o, FALSE)

\* no closeBundle invocation is awaiting: the build tool awaits a hook's
\* promise before it calls the next hook
Idle == \A r \in 1..Len(runs) : runs[r].promise # "pending"

\* ------------------------------------------------- renderBuiltUrl (90-102)

\* tracked.set(filename, value)
MapSet(map, k, v) == [x \in DOMAIN map \cup {k} |-> IF x = k THEN v ELSE map[x]]

\* what a renderBuiltUrl call is recorded as: its arguments, what shouldHandle
\* returned in it, and what it returned (a url, or "undefined")
Rewrite(filename, ctx, url) ==
    [fileName |-> filename, ctx |-> ctx, handled |-> shouldHandle(filename, ctx), url |-> url]

\* variant of Tracks: a dry run tracks nothing and rewrites no URL
Tracks_NotInDryRun(filename, ctx) == shouldHandle(filename, ctx) /\ hasProvider /\ ~isDryRun

\* variant of Tracks: the provider check of line 92 is missing
Tracks_NoProviderCheck(filename, ctx) == shouldHandle(filename, ctx)

\* lines 91-92: the call returns at neither of the two checks
Tracks(filename, ctx) == shouldHandle(filename, ctx) /\ hasProvider

renderBuiltUrl(filename, ctx) ==
    /\ Idle
    /\ IF Tracks(filename, ctx)
       THEN /\ tracked' = MapSet(tracked, filename,
                              [key |-> KeyOf(filename), url |-> getPublicUrl(KeyOf(filename))])
            /\ rewrites' = IF observed
                           THEN rewrites \cup {Rewrite(filename, ctx, getPublicUrl(KeyOf(filename)))}
                           ELSE rewrites
       ELSE /\ tracked' = tracked
            /\ rewrites' = IF observed
                           THEN rewrites \cup {Rewrite(filename, ctx, "undefined")}
                           ELSE rewrites
    /\ twin' = Logged(Call("renderBuiltUrl", filename, ctx, <<>>, 0),
                      IF Tracks(filename, ctx) THEN getPublicUrl(KeyOf(filename))
                      ELSE "undefined")
    /\ UNCHANGED <<options, resolvedConfig, manifest, pendingUploads,
                   cleanedRemote, emitted, listed, runs, tasks, observed, bundled, closed, s3call, others>>

\* ------------------------------------------------ configResolved (110-112)

configResolved ==
    /\ resolvedConfig' = TRUE
    /\ twin' = Logged(Call("configResolved", "", "", <<>>, 0), "undefined")
    /\ UNCHANGED <<options, tracked, manifest, pendingUploads,
                   cleanedRemote, emitted, listed, runs, tasks,
                   observed, rewrites, bundled, closed, s3call, others>>

\* ------------------------------------------------ generateBundle (113-153)

\* the outputs of the bundle the loop does not skip (lines 124-126)
Scheduled(bundle) ==
    SelectSeq(bundle, LAMBDA o : o.type = "asset" /\ o.fileName \in DOMAIN tracked)

\* the entries pushed before contentTypeBy rejects at the failAt-th scheduled
\* output (0: it never rejects)
Pushed(bundle, failAt) ==
    IF failAt = 0 THEN Scheduled(bundle) ELSE SubSeq(Scheduled(bundle), 1, failAt - 1)

\* hostId, hostType, size, localPath and contentType are carried along by the
\* code and read by no condition: the entries keep the name, the key and the url
ManifestEntry(o) ==
    [fileName |-> o.fileName, url |-> tracked[o.fileName].url, key |-> tracked[o.fileName].key]

\* variant of PendingUpload: the key is the file name, without the prefix
PendingUpload_BareKey(o) == [fileName |-> o.fileName, key |-> o.fileName]

\* lines 140-145
PendingUpload(o) ==
    [fileName |-> o.fileName, key |-> tracked[o.fileName].key]

\* variant of SkipsBundle: the check of line 114 is missing
SkipsBundle_NoConfigCheck == ~hasProvider

\* lines 114-121: the hook returns before its loop
SkipsBundle == ~resolvedConfig \/ ~hasProvider

\* variant of EmitsManifest: manifest.length is not looked at
EmitsManifest_Always(failAt, entries) == failAt = 0 /\ options.manifest

\* line 148: the hook came to the end of its loop (contentTypeBy never
\* rejected) and emits the manifest file, the manifest array being entries
EmitsManifest(failAt, entries) == failAt = 0 /\ options.manifest /\ Len(entries) > 0

\* the whole hook for one bundle; contentTypeBy rejects at the failAt-th
\* scheduled output (0: never), which ends the hook before its push and
\* before emitFile
generateBundle(bundle, failAt) ==
    /\ Idle
    /\ IF SkipsBundle
       THEN /\ UNCHANGED <<manifest, pendingUploads, emitted, listed>>
            /\ bundled' = IF observed
                          THEN Bundled("skipped", Cardinality(DOMAIN tracked), Len(manifest))
                          ELSE bundled
            /\ twin' = Logged(Call("generateBundle", "", "", bundle, failAt), "skipped")
       ELSE /\ failAt <= Len(Scheduled(bundle))
            /\ Len(pendingUploads) + Len(Pushed(bundle, failAt)) <= MaxPending
            /\ LET pushed == Pushed(bundle, failAt) IN
                 /\ manifest' = manifest \o
                       [i \in 1..Len(pushed) |-> ManifestEntry(pushed[i])]
                 /\ pendingUploads' = pendingUploads \o
                       [i \in 1..Len(pushed) |-> PendingUpload(pushed[i])]
            /\ emitted' = (emitted \/ EmitsManifest(failAt, manifest'))
            /\ listed' = IF EmitsManifest(failAt, manifest') THEN Len(manifest') ELSE listed
            /\ bundled' = IF observed
                          THEN Bundled(IF failAt # 0 THEN "threw"
                                       ELSE IF EmitsManifest(failAt, manifest') THEN "emitted"
                                       ELSE "returned",
                                       Cardinality(DOMAIN tracked), Len(manifest'))
                          ELSE bundled
            /\ twin' = Logged(Call("generateBundle", "", "", bundle, failAt),
                              IF failAt # 0 THEN "threw"
                              ELSE IF EmitsManifest(failAt, manifest') THEN "emitted"
                              ELSE "returned")
    /\ UNCHANGED <<options, resolvedConfig, tracked, cleanedRemote, runs, tasks,
                   observed, rewrites, closed, s3call, others>>

\* --------------------------------------------------- closeBundle (154-207)

\* One record per closeBundle invocation:
\*   promise  the promise closeBundle returned: "pending", "fulfilled", "rejected"
\*   clean    its provider.cleanPrefix call: "notCalled", "called" (awaited),
\*            "ok" (resolved), "threw" (rejected)
\*   returned the early return it took: "skipped" (nothing to upload with or
\*            to upload: 157, 161, 163), "dryRun" (166), or "no"
\*   assets   pendingUploads.length as logged at line 175, where the tasks are
\*            started; 0 while the invocation has not come there
\* One record per task of the uploads array (the async function of 177-204):
\*   run      the closeBundle invocation that started it
\*   fileName, key   the pending upload it was started for
\*   skip     its provider.shouldSkipUpload call: "notCalled", "called",
\*            "true", "false" (resolved with that value), "threw"
\*   upload   its provider.upload call: "notCalled", "called", "ok", "threw"
\*   rm       its rm(localPath) call: "notCalled", "called", "settled" (resolved,
\*            or rejected and caught: the task goes on alike)
\*   promise  the promise of the task: "pending", "fulfilled", "rejected"

\* variant of ChecksSkip: the provider is not asked whether it has the method
ChecksSkip_NoCapabilityCheck == shouldSkipNotModified

\* line 178: the task asks the provider whether the upload can be skipped
ChecksSkip == shouldSkipNotModified /\ hasShouldSkipUpload

\* variant of StartedTasks: the loop starts the first task only, the next
\* one waiting for it (uploads made one after the other)
StartedTasks_OneByOne(run) == [i \in 1..1 |->
    [ run |-> run, fileName |-> pendingUploads[i].fileName, key |-> pendingUploads[i].key,
      skip |-> IF shouldSkipNotModified /\ hasShouldSkipUpload THEN "called" ELSE "notCalled",
      upload |-> IF shouldSkipNotModified /\ hasShouldSkipUpload THEN "notCalled" ELSE "called",
      rm |-> "notCalled", promise |-> "pending" ]]

\* a task run synchronously up to its first await (178-179 or 193)
StartTask(run, p) ==
    [ run |-> run, fileName |-> p.fileName, key |-> p.key,
      skip |-> IF ChecksSkip THEN "called" ELSE "notCalled",
      upload |-> IF ChecksSkip THEN "notCalled" ELSE "called",
      rm |-> "notCalled",
      promise |-> "pending" ]

\* the loop of line 177: one task per pending upload, all started before
\* Promise.all is awaited
StartedTasks(run) == [i \in 1..Len(pendingUploads) |-> StartTask(run, pendingUploads[i])]

\* lines 181-187 and 198-203: after a skip or a successful upload the local
\* file is removed when delete is on, and the task is over otherwise
DeleteLocal(t) ==
    IF shouldDeleteLocalAsset
    THEN [t EXCEPT !.rm = "called"]
    ELSE [t EXCEPT !.promise = "fulfilled"]

\* variant of AfterSkip: the return of line 187 is missing, so a skipped
\* asset falls through to the upload
AfterSkip_NoReturn(t, outcome) == [t EXCEPT !.skip = outcome, !.upload = "called"]

\* variant of AfterSkip: the catch of line 189 is missing, so a failed skip
\* check rejects the task
AfterSkip_NoCatch(t, outcome) ==
    IF outcome = "true"
    THEN DeleteLocal([t EXCEPT !.skip = "true"])
    ELSE IF outcome = "threw"
    THEN [t EXCEPT !.skip = "threw", !.promise = "rejected"]
    ELSE [t EXCEPT !.skip = outcome, !.upload = "called"]

\* lines 179-191: shouldSkipUpload settled with "true", "false" or "threw"
AfterSkip(t, outcome) ==
    IF outcome = "true"
    THEN DeleteLocal([t EXCEPT !.skip = "true"])
    ELSE [t EXCEPT !.skip = outcome, !.upload = "called"]

\* variant of AfterUpload: the throw of line 196 is missing, so the local
\* file is removed after a failed upload as well
AfterUpload_NoThrow(t, outcome) == DeleteLocal([t EXCEPT !.upload = outcome])

\* lines 192-197: provider.upload settled with "ok" or "threw"
AfterUpload(t, outcome) ==
    IF outcome = "ok"
    THEN DeleteLocal([t EXCEPT !.upload = "ok"])
    ELSE [t EXCEPT !.upload = "threw", !.promise = "rejected"]

\* variant of AfterRm: the catch of lines 184 and 201 is missing, so a failed
\* rm rejects the task
AfterRm_NoCatch(t, outcome) ==
    [t EXCEPT !.rm = "settled",
              !.promise = IF outcome = "threw" THEN "rejected" ELSE "fulfilled"]

\* lines 182-186 and 199-203: rm settled; its failure is caught
AfterRm(t, outcome) == [t EXCEPT !.rm = "settled", !.promise = "fulfilled"]

\* line 205: Promise.all over the tasks of run r, given all tasks ts
PromiseAll(r, ts) ==
    LET mine == {i \in 1..Len(ts) : ts[i].run = r} IN
    IF \E i \in mine : ts[i].promise = "rejected" THEN "rejected"
    ELSE IF \A i \in mine : ts[i].promise = "fulfilled" THEN "fulfilled"
    ELSE "pending"

\* the promises of the closeBundle invocations once the tasks are ts: a
\* promise that has settled keeps its state
Settle(rs, ts) ==
    [r \in 1..Len(rs) |->
        IF rs[r].promise = "pending" /\ rs[r].assets > 0
        THEN [rs[r] EXCEPT !.promise = PromiseAll(r, ts)]
        ELSE rs[r]]

\* variant of EarlyReturn: the dry-run check of line 164 is missing
EarlyReturn_NoDryRun ==
    IF ~resolvedConfig \/ ~hasProvider \/ Len(pendingUploads) = 0 THEN "skipped" ELSE "no"

\* variant of EarlyReturn: the check of line 163 is missing
EarlyReturn_NoPendingCheck ==
    IF ~resolvedConfig THEN "skipped"
    ELSE IF ~hasProvider THEN "skipped"
    ELSE IF isDryRun THEN "dryRun"
    ELSE "no"

\* lines 155-167: the early return the invocation takes, "no" when none
EarlyReturn ==
    IF ~resolvedConfig THEN "skipped"
    ELSE IF ~hasProvider THEN "skipped"
    ELSE IF Len(pendingUploads) = 0 THEN "skipped"
    ELSE IF isDryRun THEN "dryRun"
    ELSE "no"

\* variant of CallsCleanPrefix: the cleanedRemote flag is not read
CallsCleanPrefix_NoFlag == shouldCleanRemote /\ prefix # "" /\ hasCleanPrefix

\* variant of CallsCleanPrefix: the prefix check of line 168 is missing
CallsCleanPrefix_AnyPrefix ==
    /\ shouldCleanRemote /\ ~cleanedRemote
    /\ hasCleanPrefix

\* lines 168-169: the invocation calls provider.cleanPrefix
CallsCleanPrefix ==
    /\ shouldCleanRemote /\ ~cleanedRemote
    /\ prefix # ""
    /\ hasCleanPrefix

\* lines 175-205: start every task, then await Promise.all
StartUploads(r, rs) ==
    /\ tasks' = tasks \o StartedTasks(r)
    /\ runs' = Settle([rs EXCEPT ![r].assets = Len(pendingUploads)], tasks')

\* what a closeBundle call is recorded as: the return it took (lines 157,
\* 161, 163, 166), or "started" when it went on to the clean step
Closed ==
    IF ~resolvedConfig THEN "noConfig"
    ELSE IF ~hasProvider THEN "noProvider"
    ELSE IF Len(pendingUploads) = 0 THEN "nothingPending"
    ELSE IF isDryRun THEN "dryRun"
    ELSE "started"

\* the invocation up to its first await, whenever it is made
closeBundleInvoked ==
    /\ Len(runs) < MaxClose
    /\ LET r == Len(runs) + 1
           new == [promise |-> "pending", returned |-> "no", clean |-> "notCalled", assets |-> 0]
       IN  IF EarlyReturn # "no"
           THEN /\ runs' = Append(runs, [new EXCEPT !.promise = "fulfilled",
                                                     !.returned = EarlyReturn])
                /\ UNCHANGED tasks
           ELSE /\ Len(tasks) + Len(pendingUploads) <= MaxTasks
                /\ IF CallsCleanPrefix
                   THEN /\ runs' = Append(runs, [new EXCEPT !.clean = "called"])
                        /\ UNCHANGED tasks
                   ELSE StartUploads(r, Append(runs, new))
    /\ closed' = IF observed THEN Closed ELSE closed
    /\ UNCHANGED <<options, resolvedConfig, tracked, manifest, pendingUploads,
                   cleanedRemote, emitted, listed, observed, rewrites, bundled, s3call, others,
                   twin>>

\* the invocation made by a build tool that awaits the hook called before
closeBundle ==
    /\ Idle
    /\ closeBundleInvoked

\* variant of CleanPrefixResolves: line 173 is missing, the flag stays unset
CleanPrefixResolves_NoFlag(r) ==
    /\ runs[r].clean = "called"
    /\ StartUploads(r, [runs EXCEPT ![r].clean = "ok"])
    /\ UNCHANGED <<recorded, options, resolvedConfig, tracked, manifest, pendingUploads,
                   cleanedRemote, emitted, listed>>

\* lines 171-175: provider.cleanPrefix resolved
CleanPrefixResolves(r) ==
    /\ runs[r].clean = "called"
    /\ cleanedRemote' = TRUE
    /\ StartUploads(r, [runs EXCEPT ![r].clean = "ok"])
    /\ UNCHANGED <<recorded, options, resolvedConfig, tracked, manifest, pendingUploads,
                   emitted, listed>>

\* variant of CleanPrefixRejects: the flag is set before the call is awaited,
\* so it is set when the call rejects as well
CleanPrefixRejects_FlagSet(r) ==
    /\ runs[r].clean = "called"
    /\ cleanedRemote' = TRUE
    /\ runs' = [runs EXCEPT ![r].clean = "threw", ![r].promise = "rejected"]
    /\ UNCHANGED <<recorded, options, resolvedConfig, tracked, manifest, pendingUploads,
                   emitted, listed, tasks>>

\* line 171: provider.cleanPrefix rejected; nothing catches it
CleanPrefixRejects(r) ==
    /\ runs[r].clean = "called"
    /\ runs' = [runs EXCEPT ![r].clean = "threw", ![r].promise = "rejected"]
    /\ UNCHANGED <<recorded, options, resolvedConfig, tracked, manifest, pendingUploads,
                   cleanedRemote, emitted, listed, tasks>>

\* a step of task i: the call it awaits settles
TaskStep(i, t) ==
    /\ tasks' = [tasks EXCEPT ![i] = t]
    /\ runs' = Settle(runs, tasks')
    /\ UNCHANGED <<recorded, options, resolvedConfig, tracked, manifest, pendingUploads,
                   cleanedRemote, emitted, listed>>

ShouldSkipUploadSettles(i, outcome) ==
    /\ tasks[i].skip = "called"
    /\ TaskStep(i, AfterSkip(tasks[i], outcome))

UploadSettles(i, outcome) ==
    /\ tasks[i].upload = "called"
    /\ TaskStep(i, AfterUpload(tasks[i], outcome))

RmSettles(i, outcome) ==
    /\ tasks[i].rm = "called"
    /\ TaskStep(i, AfterRm(tasks[i], outcome))

\* ------------------------------------------ shouldSkipUpload of S3 (33-53)

\* etag.replace(/^"+|"+$/g, ""): the quotes at both ends go
RECURSIVE StripQuotesLeft(_)
StripQuotesLeft(s) ==
    IF s # <<>> /\ Head(s) = "\"" THEN StripQuotesLeft(Tail(s)) ELSE s

RECURSIVE StripQuotesRight(_)
StripQuotesRight(s) ==
    IF s # <<>> /\ s[Len(s)] = "\"" THEN StripQuotesRight(SubSeq(s, 1, Len(s) - 1)) ELSE s

sanitizeEtag(etag) == StripQuotesRight(StripQuotesLeft(etag))

\* String.prototype.toLowerCase on the characters of the model
toLowerCase(s) ==
    [i \in 1..Len(s) |-> IF s[i] = "A" THEN "a"
                         ELSE IF s[i] = "B" THEN "b"
                         ELSE IF s[i] = "W" THEN "w"
                         ELSE s[i]]

\* isMd5HashMatched(client, key, data), lines 42-53, given what
\* client.getEtag comes to
isMd5HashMatched(getEtag, data) ==
    IF getEtag.kind = "rejects" THEN FALSE
    ELSE IF getEtag.kind = "null" \/ getEtag.etag = <<>> THEN FALSE
    ELSE LET normalizedEtag == sanitizeEtag(getEtag.etag) IN
         IF normalizedEtag = <<>> \/ (\E i \in 1..Len(normalizedEtag) : normalizedEtag[i] = "-")
         THEN FALSE
         ELSE toLowerCase(normalizedEtag) = toLowerCase(Md5Hex(data))

\* lines 33-36: what the call comes to; readFile is awaited before
\* isMd5HashMatched is entered, outside its try
SkipUploadResult(skipNotModified, file, getEtag) ==
    IF ~skipNotModified THEN "false"
    ELSE IF file.kind = "rejects" THEN "rejects"
    ELSE IF isMd5HashMatched(getEtag, file.data) THEN "true"
    ELSE "false"

shouldSkipUpload ==
    /\ s3call.result = "notCalled"
    /\ s3call' = [s3call EXCEPT
                    !.result = SkipUploadResult(s3call.skipNotModified, s3call.file, s3call.etag)]
    /\ UNCHANGED <<options, resolvedConfig, tracked, manifest, pendingUploads,
                   cleanedRemote, emitted, listed, runs, tasks, observed, rewrites, bundled, closed,
                   others, twin>>

\* ----------------------------------------------- cleanPrefix of S3 (25-32)

\* normalizePrefix$1(prefix), lines 54-56
normalizePrefix1(p) == StripTrailing(StripLeading(p))

\* client.listObjects(delimiter, prefix) and client.deleteObjects(keys) as calls
ListObjects(delimiter, under) == [op |-> "listObjects", delimiter |-> delimiter, prefix |-> under]
DeleteObjects(keys) == [op |-> "deleteObjects", keys |-> keys]

\* variant of ClientCalls: the check of line 27 is missing
ClientCalls_EmptyPrefixListed(p, listing) ==
    LET normalizedPrefix == normalizePrefix1(p) IN
    IF listing.kind # "array" \/ Len(listing.keys) = 0
    THEN << ListObjects("/", Text(normalizedPrefix) \o "/") >>
    ELSE << ListObjects("/", Text(normalizedPrefix) \o "/"), DeleteObjects(listing.keys) >>

\* lines 26-31: the calls cleanPrefix(p) makes on the client, given what
\* listObjects comes to
ClientCalls(p, listing) ==
    LET normalizedPrefix == normalizePrefix1(p) IN
    IF normalizedPrefix = <<>> THEN <<>>
    ELSE IF listing.kind # "array" \/ Len(listing.keys) = 0
    THEN << ListObjects("/", Text(normalizedPrefix) \o "/") >>
    ELSE << ListObjects("/", Text(normalizedPrefix) \o "/"), DeleteObjects(listing.keys) >>

\* how cleanPrefix(p) ends: a rejection of listObjects or of deleteObjects is
\* caught by nothing
CleanPrefixResult(p, listing, deleteObjects) ==
    LET calls == ClientCalls(p, listing) IN
    IF calls = <<>> THEN "resolves"
    ELSE IF listing.kind = "rejects" THEN "rejects"
    ELSE IF Len(calls) = 2 THEN deleteObjects
    ELSE "resolves"

cleanPrefix ==
    /\ s3clean.result = "notCalled"
    /\ s3clean' = [s3clean EXCEPT
                     !.calls = ClientCalls(s3clean.prefix, s3clean.listing),
                     !.result = CleanPrefixResult(s3clean.prefix, s3clean.listing,
                                                  s3clean.deleteObjects)]
    /\ UNCHANGED <<options, resolvedConfig, tracked, manifest, pendingUploads,
                   cleanedRemote, emitted, listed, runs, tasks, observed, rewrites, bundled, closed,
                   s3call, remote, indicator, chatStore, chatInterface, twin>>

\* ------------------------------------- the plugin on the S3 provider (9-41)

\* the keys of the bucket, in the order listObjects answers in
KeysInOrder == << "cdn/a.png", "cdn/b.png", "remote-assets/a.png" >>

\* the key starts with the prefix asked for: it is that prefix and a file name
Under(key, under) == \E f \in Files : key = under \o f

\* what client.listObjects("/", under) resolves with when the bucket holds
\* objects
Listed(objects, under) ==
    Listing("array", SelectSeq(KeysInOrder, LAMBDA k : k \in objects /\ Under(k, under)))

\* the keys a cleanPrefix(p) call that resolved has deleted from a bucket
\* holding objects
CleanedKeys(p, objects) ==
    LET listing == Listed(objects, Text(normalizePrefix1(p)) \o "/")
        deletes == SelectSeq(ClientCalls(p, listing), LAMBDA c : c.op = "deleteObjects")
    IN  IF deletes = <<>> THEN {}
        ELSE { deletes[1].keys[j] : j \in 1..Len(deletes[1].keys) }

\* variant of Objects: cleanPrefix deletes nothing
Objects_NothingDeleted ==
    remote \cup { tasks[i].key : i \in { j \in 1..Len(tasks) : tasks[j].upload = "ok" } }

\* the keys of the objects in the bucket now: those of the start, less what a
\* resolved cleanPrefix call (line 171, made before any task) deleted, and
\* what the resolved upload calls have put (line 23)
Objects ==
    (IF \E r \in 1..Len(runs) : runs[r].clean = "ok"
     THEN remote \ CleanedKeys(normalizePrefix(options.prefix), remote)
     ELSE remote)
    \cup { tasks[i].key : i \in { j \in 1..Len(tasks) : tasks[j].upload = "ok" } }

\* the contents of every local file of the build, which are those of the
\* objects in the bucket
Contents == [kind |-> "data", data |-> "d1"]

\* what client.getEtag(key) comes to now: the quoted MD5 of the object, or no
\* tag when there is no object
GetEtag(key) ==
    IF key \in Objects
    THEN Etag("string", <<"\"">> \o Md5Hex(Contents.data) \o <<"\"">>)
    ELSE Etag("null", <<>>)

\* what provider.shouldSkipUpload(localPath, key) settles with now, as the
\* plugin sees it
S3SkipAnswer(key) ==
    LET result == SkipUploadResult(TRUE, Contents, GetEtag(key)) IN
    IF result = "rejects" THEN "threw" ELSE result

\* ------------------------------------------------ the page of apps/stage-web

\* the plugin and the S3 provider, which the page leaves alone
build == <<options, resolvedConfig, tracked, manifest, pendingUploads, cleanedRemote,
           emitted, listed, runs, tasks, observed, rewrites, bundled, closed,
           s3call, s3clean, remote, twin>>

\* changes of the status prop in one life of the component
MaxChanges == 3

\* updateStatus(newStatus), StatusIndicator.vue lines 196-216, up to the
\* setTimeout call
updateStatus(c, newStatus) ==
    LET normalized == normalizeStatus(newStatus) IN
    IF normalized = c.currentStatus THEN c
    ELSE [c EXCEPT !.previousStatus = c.currentStatus,
                   !.isTransitioning = TRUE,
                   !.setting = Append(@, normalized)]

\* the prop is given another value, and the watcher of lines 248-250 runs
StatusChanges(newStatus) ==
    /\ indicator.changes < MaxChanges
    /\ newStatus # indicator.status
    /\ indicator' = updateStatus([indicator EXCEPT !.status = newStatus, !.changes = @ + 1],
                                 normalizeStatus(newStatus))
    /\ UNCHANGED <<build, chatStore, chatInterface>>

\* the 100 ms timer armed first fires (lines 207-215)
StatusTimerFires ==
    /\ indicator.setting # <<>>
    /\ indicator' = [indicator EXCEPT !.currentStatus = Head(indicator.setting),
                                      !.setting = Tail(@),
                                      !.ending = @ + 1]
    /\ UNCHANGED <<build, chatStore, chatInterface>>

\* a 200 ms timer fires (lines 212-214)
TransitionTimerFires ==
    /\ indicator.ending > 0
    /\ indicator' = [indicator EXCEPT !.isTransitioning = FALSE, !.ending = @ - 1]
    /\ UNCHANGED <<build, chatStore, chatInterface>>

\* sendMessage calls made on the store
MaxSends == 3

\* the sendMessage calls of the store that have not come to their end
InFlight(st) == {c \in 1..Len(st.calls) : st.calls[c].at # "done"}

\* addMessage(message), part_011 lines 83-103, up to the setTimeout call
addMessage(st, role) == [st EXCEPT !.messages = Append(@, Message(Len(@) + 1, role, "sending"))]

\* lines 155-158: the finally block of sendMessage call c
Finally(st, c) == [st EXCEPT !.isSending = FALSE, !.isTyping = FALSE]

\* what the store and the input are given to send
Texts == {"", "  ", "hello"}

\* String.prototype.trim on the contents of the model
trim(content) == IF content = "  " THEN "" ELSE content

\* sendMessage(content) of the store, called without images, lines 111-127,
\* up to its first await
StoreSendMessage(content) ==
    /\ Len(chatStore.calls) < MaxSends
    /\ chatStore' =
          IF trim(content) = "" THEN chatStore
          ELSE LET added == addMessage([chatStore EXCEPT !.isSending = TRUE], "user") IN
               [added EXCEPT !.aiStatus = "thinking",
                             !.isTyping = TRUE,
                             !.calls = Append(@, [message |-> Len(added.messages),
                                                  at |-> "thinking"])]
    /\ UNCHANGED <<build, indicator, chatInterface>>

\* the 500 ms timer of the oldest message still 'sending' fires (97-102)
StoreMessageSent ==
    /\ \E i \in 1..Len(chatStore.messages) :
          /\ chatStore.messages[i].status = "sending"
          /\ \A j \in 1..(i - 1) : chatStore.messages[j].status # "sending"
          /\ chatStore' = [chatStore EXCEPT !.messages[i].status = "sent"]
    /\ UNCHANGED <<build, indicator, chatInterface>>

\* the 1000 ms timer of call c fires (lines 129-132): it was armed with the
\* 500 ms timer of the call's message and after the timers of earlier calls
StoreThought(c) ==
    /\ chatStore.calls[c].at = "thinking"
    /\ chatStore.messages[chatStore.calls[c].message].status = "sent"
    /\ \A d \in 1..(c - 1) : chatStore.calls[d].at # "thinking"
    /\ chatStore' = [chatStore EXCEPT !.aiStatus = "responding", !.calls[c].at = "responding"]
    /\ UNCHANGED <<build, indicator, chatInterface>>

\* the 1500 ms timer of call c fires (lines 135-158): the reply is added and
\* the call ends with its finally block
StoreResponded(c) ==
    /\ chatStore.calls[c].at = "responding"
    /\ \A d \in 1..(c - 1) : chatStore.calls[d].at = "done"
    /\ chatStore' =
          LET replied == addMessage(chatStore, "assistant") IN
          Finally([replied EXCEPT !.aiStatus = "online", !.calls[c].at = "done"], c)
    /\ UNCHANGED <<build, indicator, chatInterface>>

\* messages sent from one ChatInterface
MaxSent == 3

\* canSend, part_010 lines 101-104
canSend(c) == trim(c.inputText) # "" /\ ~c.isSending /\ ~c.disabled

\* the watcher of props.messages, part_010 lines 245-248
WatchMessages(c, newMessages) ==
    [c EXCEPT !.messages = newMessages,
              !.messageList = [i \in 1..Len(newMessages) |-> normalizeMessage(newMessages[i])]]

\* the user types text and presses Enter: sendMessage(), part_010 lines
\* 163-196, up to the setTimeout call
InterfaceSendMessage(text) ==
    /\ chatInterface.sent < MaxSent
    /\ LET typed == [chatInterface EXCEPT !.inputText = text] IN
       chatInterface' =
          IF ~canSend(typed) THEN typed
          ELSE [typed EXCEPT !.isSending = TRUE,
                             !.messageList =
                                 Append(@, normalizeMessage(
                                     Message(<<"msg", typed.sent + 1>>, "user", "sending"))),
                             !.inputText = "",
                             !.timers = Append(@, <<"msg", typed.sent + 1>>),
                             !.sent = @ + 1]
    /\ UNCHANGED <<build, indicator, chatStore>>

\* the page enables or disables the input
DisabledChanges ==
    /\ chatInterface' = [chatInterface EXCEPT !.disabled = ~@]
    /\ UNCHANGED <<build, indicator, chatStore>>

\* the 500 ms timer armed first fires (lines 187-193)
InterfaceTimerFires ==
    /\ chatInterface.timers # <<>>
    /\ chatInterface' =
          [chatInterface EXCEPT
              !.messageList = [i \in 1..Len(@) |->
                                 IF @[i].id = Head(chatInterface.timers)
                                 THEN [@[i] EXCEPT !.status = "sent"]
                                 ELSE @[i]],
              !.isSending = FALSE,
              !.timers = Tail(@)]
    /\ UNCHANGED <<build, indicator, chatStore>>

\* the page pushes the reply to a message sent (test.vue lines 42-63, 1500 ms
\* after the send event, so after the 500 ms timer of that message), and the
\* watcher of the prop runs
PageReplies ==
    /\ chatInterface.replies < chatInterface.sent - Len(chatInterface.timers)
    /\ chatInterface' =
          WatchMessages([chatInterface EXCEPT !.replies = @ + 1],
                        Append(chatInterface.messages,
                               Message(<<"reply", chatInterface.replies + 1>>,
                                       "assistant", "sent")))
    /\ UNCHANGED <<build, indicator, chatStore>>

\* ------------------------------------------------------------ specification

Next ==
    \/ \E f \in Files, ctx \in Ctxs : renderBuiltUrl(f, ctx)
    \/ configResolved
    \/ \E b \in Bundles, failAt \in 0..2 : generateBundle(b, failAt)
    \/ closeBundle
    \/ \E r \in 1..Len(runs) : CleanPrefixResolves(r)
    \/ \E r \in 1..Len(runs) : CleanPrefixRejects(r)
    \/ \E i \in 1..Len(tasks), o \in {"true", "false", "threw"} : ShouldSkipUploadSettles(i, o)
    \/ \E i \in 1..Len(tasks), o \in {"ok", "threw"} : UploadSettles(i, o)
    \/ \E i \in 1..Len(tasks), o \in {"ok", "threw"} : RmSettles(i, o)

Spec == Init /\ [][Next]_vars

\* The URL rewriting alone, in a build that records its renderBuiltUrl calls:
\* every filter and every prefix, the other options at their defaults.
RewriteOptions ==
    { o \in Options :
        /\ o.delete /\ o.clean /\ o.skipNotModified
        /\ ~o.dryRun /\ ~o.manifest }

InitRewrite == \E o \in RewriteOptions : Constructed(o, TRUE)

NextRewrite == \E f \in Files, ctx \in Ctxs : renderBuiltUrl(f, ctx)

SpecRewrite == InitRewrite /\ [][NextRewrite]_vars

\* The clean step under every prefix a build may configure, as written and
\* not yet normalized: clean is on, and delete and skipNotModified are off, so
\* that a task is its upload alone.
PrefixOptions ==
    { o \in Options :
        /\ o.provider \in {"minimal", "s3"}
        /\ o.clean /\ ~o.delete /\ ~o.skipNotModified
        /\ ~o.dryRun /\ ~o.manifest
        /\ o.include = <<Matcher("RegExp", Files)>>
        /\ o.includeBy = NoIncludeBy }

InitPrefix == \E o \in PrefixOptions : Constructed(o, FALSE)

NextPrefix ==
    \/ \E f \in Files, ctx \in Ctxs : renderBuiltUrl(f, ctx)
    \/ configResolved
    \/ \E b \in Bundles, failAt \in 0..2 : generateBundle(b, failAt)
    \/ closeBundle
    \/ \E r \in 1..Len(runs) : CleanPrefixResolves(r)
    \/ \E r \in 1..Len(runs) : CleanPrefixRejects(r)
    \/ \E i \in 1..Len(tasks), o \in {"ok", "threw"} : UploadSettles(i, o)

SpecPrefix == InitPrefix /\ [][NextPrefix]_vars

\* The build with the manifest option on or off, recording its
\* generateBundle calls: the other options at their defaults, but delete and
\* skipNotModified off so that a task is its upload alone.
ManifestOptions ==
    { o \in Options :
        /\ o.prefix = <<"cdn">>
        /\ o.clean /\ ~o.delete /\ ~o.skipNotModified
        /\ ~o.dryRun
        /\ o.include = <<Matcher("RegExp", Files)>>
        /\ o.includeBy = NoIncludeBy }

InitManifest == \E o \in ManifestOptions : Constructed(o, TRUE)

NextManifest ==
    \/ \E f \in Files : renderBuiltUrl(f, "js")
    \/ configResolved
    \/ \E b \in Bundles, failAt \in 0..2 : generateBundle(b, failAt)
    \/ closeBundle
    \/ \E r \in 1..Len(runs) : CleanPrefixResolves(r)
    \/ \E r \in 1..Len(runs) : CleanPrefixRejects(r)
    \/ \E i \in 1..Len(tasks), o \in {"ok", "threw"} : UploadSettles(i, o)

SpecManifest == InitManifest /\ [][NextManifest]_vars

\* The tasks of closeBundle with delete on and clean off: every task ends
\* with an rm call unless its upload rejects.
DeleteOptions ==
    { o \in Options :
        /\ o.provider \in {"minimal", "s3"}
        /\ o.prefix = <<"cdn">>
        /\ o.delete /\ ~o.clean
        /\ ~o.dryRun /\ ~o.manifest
        /\ o.include = <<Matcher("RegExp", Files)>>
        /\ o.includeBy = NoIncludeBy }

InitDelete == \E o \in DeleteOptions : Constructed(o, FALSE)

NextDelete ==
    \/ \E f \in Files, ctx \in Ctxs : renderBuiltUrl(f, ctx)
    \/ configResolved
    \/ \E b \in Bundles, failAt \in 0..2 : generateBundle(b, failAt)
    \/ closeBundle
    \/ \E i \in 1..Len(tasks), o \in {"true", "false", "threw"} : ShouldSkipUploadSettles(i, o)
    \/ \E i \in 1..Len(tasks), o \in {"ok", "threw"} : UploadSettles(i, o)
    \/ \E i \in 1..Len(tasks), o \in {"ok", "threw"} : RmSettles(i, o)

SpecDelete == InitDelete /\ [][NextDelete]_vars

\* The build whose tool does not await closeBundle before it calls it again:
\* a provider with cleanPrefix, a prefix, clean on, and delete and
\* skipNotModified off so that a task is its upload alone.
OverlapOptions ==
    { o \in Options :
        /\ o.provider = "s3"
        /\ o.prefix = <<"cdn">>
        /\ o.clean /\ ~o.delete /\ ~o.skipNotModified
        /\ ~o.dryRun /\ ~o.manifest
        /\ o.include = <<Matcher("RegExp", Files)>>
        /\ o.includeBy = NoIncludeBy }

InitOverlap == \E o \in OverlapOptions : Constructed(o, FALSE)

NextOverlap ==
    \/ \E f \in Files : renderBuiltUrl(f, "js")
    \/ configResolved
    \/ \E b \in Bundles : generateBundle(b, 0)
    \/ closeBundleInvoked
    \/ \E r \in 1..Len(runs) : CleanPrefixResolves(r)
    \/ \E r \in 1..Len(runs) : CleanPrefixRejects(r)
    \/ \E i \in 1..Len(tasks), o \in {"ok", "threw"} : UploadSettles(i, o)

SpecOverlap == InitOverlap /\ [][NextOverlap]_vars

\* The build on the provider of createS3Provider, with a prefix, clean and
\* skipNotModified on and delete off, against a bucket that holds objects of
\* an earlier build of the same files.
S3BuildOptions ==
    { o \in Options :
        /\ o.provider = "s3"
        /\ o.prefix \in { <<"cdn">>, <<"/", "cdn", "/">> }
        /\ o.clean /\ ~o.delete /\ o.skipNotModified
        /\ ~o.dryRun /\ ~o.manifest
        /\ o.include = <<Matcher("RegExp", Files)>>
        /\ o.includeBy = NoIncludeBy }

InitS3Build ==
    /\ \E o \in S3BuildOptions : WarpDrivePlugin(o, FALSE)
    /\ s3call = NoS3Call
    /\ s3clean = NoS3Clean
    /\ remote \in SUBSET RemoteKeys
    /\ twin = NoTwin
    /\ NoPage

NextS3Build ==
    \/ \E f \in Files : renderBuiltUrl(f, "js")
    \/ configResolved
    \/ \E b \in Bundles : generateBundle(b, 0)
    \/ closeBundle
    \/ \E r \in 1..Len(runs) : CleanPrefixResolves(r)
    \/ \E r \in 1..Len(runs) : CleanPrefixRejects(r)
    \/ \E i \in 1..Len(tasks) : ShouldSkipUploadSettles(i, S3SkipAnswer(tasks[i].key))
    \/ \E i \in 1..Len(tasks), o \in {"ok", "threw"} : UploadSettles(i, o)

SpecS3Build == InitS3Build /\ [][NextS3Build]_vars

\* Two plugin instances, one after the other, that are given the same calls
\* of renderBuiltUrl, configResolved and generateBundle: the first has the
\* flags at their defaults, the second has any flags and the other options of
\* the first.

\* calls made on one instance
MaxCalls == 3

TwinOptions ==
    { o \in Options :
        /\ o.provider = "s3"
        /\ o.prefix = <<"cdn">>
        /\ o.manifest
        /\ o.include = <<Matcher("RegExp", Files)>>
        /\ o.includeBy = NoIncludeBy }

\* the options differ in delete, clean, skipNotModified and dryRun at most
SameButFlags(o1, o2) ==
    /\ o1.provider = o2.provider /\ o1.prefix = o2.prefix /\ o1.manifest = o2.manifest
    /\ o1.include = o2.include /\ o1.includeBy = o2.includeBy

\* the bundles the two instances are given
TwinBundles ==
    { << Output("a.png", "asset"), Output("b.png", "asset") >>,
      << Output("a.png", "chunk"), Output("b.png", "asset") >> }

InitTwin ==
    /\ \E o \in TwinOptions :
          /\ o.delete /\ o.clean /\ o.skipNotModified /\ ~o.dryRun
          /\ WarpDrivePlugin(o, TRUE)
    /\ s3call = NoS3Call
    /\ s3clean = NoS3Clean
    /\ remote = {}
    /\ twin = FirstTwin
    /\ NoPage

\* WarpDrivePlugin(o) is called a second time: what the first instance came
\* to is kept, and the second instance is as constructed
WarpDrivePluginTwin(o) ==
    /\ twin.phase = 1
    /\ SameButFlags(options, o)
    /\ twin' = [phase |-> 2, calls |-> <<>>, returned |-> <<>>,
                first |-> Instance(twin.calls, twin.returned, tracked, manifest,
                                   pendingUploads)]
    /\ options' = o
    /\ resolvedConfig' = FALSE
    /\ tracked' = [f \in {} |-> 0]
    /\ manifest' = <<>>
    /\ pendingUploads' = <<>>
    /\ cleanedRemote' = FALSE
    /\ emitted' = FALSE
    /\ listed' = 0
    /\ rewrites' = {}
    /\ bundled' = NotBundled
    /\ UNCHANGED <<runs, tasks, observed, closed, s3call, others>>

\* the call can be made now: any call on the first instance, and on the second
\* the call the first was given at the same place
Given(call) ==
    IF twin.phase = 1
    THEN Len(twin.calls) < MaxCalls
    ELSE /\ Len(twin.calls) < Len(twin.first.calls)
         /\ twin.first.calls[Len(twin.calls) + 1] = call

NextTwin ==
    \/ \E f \in Files :
          Given(Call("renderBuiltUrl", f, "js", <<>>, 0)) /\ renderBuiltUrl(f, "js")
    \/ Given(Call("configResolved", "", "", <<>>, 0)) /\ configResolved
    \/ \E b \in TwinBundles, failAt \in 0..2 :
          Given(Call("generateBundle", "", "", b, failAt)) /\ generateBundle(b, failAt)
    \/ \E o \in TwinOptions : WarpDrivePluginTwin(o)

SpecTwin == InitTwin /\ [][NextTwin]_vars

\* The provider of createS3Provider alone: one shouldSkipUpload call for
\* every setting of its option, every local file and every answer of getEtag.
DefaultOptions ==
    [ provider |-> "s3", prefix |-> <<"remote-assets">>, delete |-> TRUE, clean |-> TRUE,
      skipNotModified |-> TRUE, dryRun |-> FALSE, manifest |-> FALSE,
      include |-> <<>>, includeBy |-> NoIncludeBy ]

InitS3 ==
    /\ WarpDrivePlugin(DefaultOptions, FALSE)
    /\ s3call \in S3Calls
    /\ s3clean = NoS3Clean
    /\ remote = {}
    /\ twin = NoTwin
    /\ NoPage

NextS3 == shouldSkipUpload

SpecS3 == InitS3 /\ [][NextS3]_vars

\* The provider of createS3Provider alone: one cleanPrefix call for every
\* prefix and every answer of listObjects and deleteObjects.
InitS3Clean ==
    /\ WarpDrivePlugin(DefaultOptions, FALSE)
    /\ s3call = NoS3Call
    /\ s3clean \in S3Cleans
    /\ remote = {}
    /\ twin = NoTwin
    /\ NoPage

NextS3Clean == cleanPrefix

SpecS3Clean == InitS3Clean /\ [][NextS3Clean]_vars

\* The plugin constructed and left alone, while the page is followed
NoBuild ==
    /\ WarpDrivePlugin(DefaultOptions, FALSE)
    /\ s3call = NoS3Call
    /\ s3clean = NoS3Clean
    /\ remote = {}
    /\ twin = NoTwin

\* A StatusIndicator given any status prop and any changes of it.
InitIndicator ==
    /\ NoBuild
    /\ \E status \in StatusProps : indicator = Indicator(status)
    /\ chatStore = NoChatStore
    /\ chatInterface = NoChatInterface

NextIndicator ==
    \/ \E status \in StatusProps : StatusChanges(status)
    \/ StatusTimerFires
    \/ TransitionTimerFires

SpecIndicator == InitIndicator /\ [][NextIndicator]_vars

\* the same, where a timer that has been armed fires in the end
FairIndicator ==
    /\ SpecIndicator
    /\ WF_vars(StatusTimerFires)
    /\ WF_vars(TransitionTimerFires)

\* The chat store and its sendMessage calls, which may overlap.
InitChatStore ==
    /\ NoBuild
    /\ indicator = NoIndicator
    /\ chatStore = NoChatStore
    /\ chatInterface = NoChatInterface

NextChatStore ==
    \/ \E content \in Texts : StoreSendMessage(content)
    \/ StoreMessageSent
    \/ \E c \in 1..Len(chatStore.calls) : StoreThought(c)
    \/ \E c \in 1..Len(chatStore.calls) : StoreResponded(c)

SpecChatStore == InitChatStore /\ [][NextChatStore]_vars

\* A ChatInterface on the page of test.vue.
InitChatInterface ==
    /\ NoBuild
    /\ indicator = NoIndicator
    /\ chatStore = NoChatStore
    /\ \E messages \in FirstMessages, disabled \in BOOLEAN :
          chatInterface = ChatInterface(messages, disabled)

NextChatInterface ==
    \/ \E text \in Texts : InterfaceSendMessage(text)
    \/ DisabledChanges
    \/ InterfaceTimerFires
    \/ PageReplies

SpecChatInterface == InitChatInterface /\ [][NextChatInterface]_vars

\* ------------------------------------------------------------------ claims

RunIds == 1..Len(runs)
TaskIds == 1..Len(tasks)
\* the tasks closeBundle invocation r started, in the order of its loop
TasksOf(r) == {i \in TaskIds : tasks[i].run = r}
TaskSeq(r) == SelectSeq(tasks, LAMBDA t : t.run = r)
\* the task made its attempt: it called shouldSkipUpload or upload
Attempted(t) == t.skip # "notCalled" \/ t.upload # "notCalled"

\* C1: when provider.upload rejected for a task of a closeBundle invocation
\* and the promise of that invocation is rejected, every task of the
\* invocation has settled.
C1_RejectsAfterAllSettled ==
    \A r \in RunIds :
        (runs[r].promise = "rejected" /\ \E i \in TasksOf(r) : tasks[i].upload = "threw")
        => \A j \in TasksOf(r) : tasks[j].promise # "pending"

\* C2: a task calls rm only when delete is on and only after its own upload
\* resolved or its own skip check returned true; a task whose upload rejected
\* never calls rm.
C2_RmFollowsOwnOutcome ==
    \A i \in TaskIds :
        /\ tasks[i].rm # "notCalled"
             => shouldDeleteLocalAsset /\ (tasks[i].upload = "ok" \/ tasks[i].skip = "true")
        /\ tasks[i].upload = "threw" => tasks[i].rm = "notCalled"

\* a task removed its file after its upload while the upload of another task
\* of the same invocation rejected
C2_Witness ==
    \E i, j \in TaskIds :
        /\ tasks[i].run = tasks[j].run
        /\ tasks[i].upload = "ok" /\ tasks[i].rm = "settled"
        /\ tasks[j].upload = "threw"

\* C3: hooks called one after the other: while any task exists (a skip check
\* or an upload of the build has started) no cleanPrefix call is in flight, so
\* every cleanPrefix call ended before the first task and none starts later.
C3_CleanPrecedesUploads ==
    Len(tasks) > 0 => \A r \in RunIds : runs[r].clean # "called"

\* the second closeBundle invocation runs its tasks after the first one
\* cleaned the prefix and uploaded
C3_Witness ==
    /\ Len(runs) = 2
    /\ runs[1].clean = "ok" /\ runs[1].assets > 0
    /\ runs[2].assets > 0

\* C4: provider.upload is called at most once per tracked file name.
C4_UploadOncePerFile ==
    \A f \in Files :
        Cardinality({i \in TaskIds : tasks[i].fileName = f /\ tasks[i].upload # "notCalled"}) <= 1

\* C5: with dryRun on, no closeBundle invocation calls cleanPrefix and no
\* task (skip check, upload, rm) is ever started.
C5_DryRunDoesNothing ==
    isDryRun => /\ Len(tasks) = 0
                /\ \A r \in RunIds : runs[r].clean = "notCalled" /\ runs[r].assets = 0

\* a closeBundle invocation took the dry-run return with clean, delete and
\* skipNotModified on and a provider that cleans
C5_Witness ==
    /\ \E r \in RunIds : runs[r].returned = "dryRun"
    /\ shouldCleanRemote /\ shouldDeleteLocalAsset /\ shouldSkipNotModified
    /\ prefix # "" /\ hasCleanPrefix

C7_SkippedNeverUploaded ==
    \A i \in TaskIds :
        tasks[i].skip = "true"
            => /\ tasks[i].upload = "notCalled"
               /\ shouldDeleteLocalAsset => tasks[i].rm # "notCalled"

\* a skipped task removed its file and is over, beside a task that uploaded
C7_Witness ==
    \E i, j \in TaskIds :
        /\ tasks[i].run = tasks[j].run
        /\ tasks[i].skip = "true" /\ tasks[i].rm = "settled" /\ tasks[i].promise = "fulfilled"
        /\ tasks[j].skip = "false" /\ tasks[j].upload = "ok" /\ tasks[j].rm = "settled"

\* C8: a task whose shouldSkipUpload call rejected goes on to call
\* provider.upload, and a closeBundle invocation is rejected only when its
\* cleanPrefix call or the upload of one of its tasks rejected.
C8_SkipFailureFallsThrough ==
    /\ \A i \in TaskIds : tasks[i].skip = "threw" => tasks[i].upload # "notCalled"
    /\ \A r \in RunIds :
          runs[r].promise = "rejected"
            => \/ runs[r].clean = "threw"
               \/ \E i \in TasksOf(r) : tasks[i].upload = "threw"

\* closeBundle fulfilled although the skip check of one of its tasks rejected
C8_Witness ==
    \E i \in TaskIds :
        /\ tasks[i].skip = "threw" /\ tasks[i].upload = "ok"
        /\ runs[tasks[i].run].promise = "fulfilled"

\* C9: the promise of a closeBundle invocation is rejected if and only if
\* the provider.upload call of one of its tasks rejected.
C9_OnlyUploadFailuresReject ==
    \A r \in RunIds :
        runs[r].promise = "rejected" <=> \E i \in TasksOf(r) : tasks[i].upload = "threw"

\* C10: a closeBundle invocation that reaches the upload step has started one
\* task per pending upload, in order, and each of them has made its attempt,
\* whatever became of the others.
C10_EveryAttemptStarted ==
    \A r \in RunIds :
        runs[r].assets > 0
            => /\ Len(TaskSeq(r)) = runs[r].assets
               /\ \A k \in 1..runs[r].assets :
                     /\ TaskSeq(r)[k].fileName = pendingUploads[k].fileName
                     /\ Attempted(TaskSeq(r)[k])

\* the upload of the first pending upload rejected and the second one is
\* under way
C10_Witness ==
    \E r \in RunIds :
        /\ runs[r].assets = 2
        /\ TaskSeq(r)[1].upload = "threw"
        /\ TaskSeq(r)[2].upload = "called"

\* C11: in every renderBuiltUrl call, shouldHandle(f, ctx) returned true
\* exactly when f matches a matcher of include and includeBy is absent or
\* true of (f, ctx); with an empty include it returned false.
C11_FilterIff ==
    \A c \in rewrites :
        /\ c.handled <=>
              /\ \E k \in DOMAIN options.include : c.fileName \in options.include[k].accepts
              /\ \/ ~options.includeBy.present
                 \/ <<c.fileName, c.ctx>> \in options.includeBy.accepts
        /\ options.include = <<>> => ~c.handled

\* b.png matches the second matcher only, a predicate, and includeBy is true
\* of it for one ctx and false for the other: one call accepted, one rejected
C11_Witness ==
    /\ options.include = <<Matcher("RegExp", {"a.png"}), Matcher("function", {"b.png"})>>
    /\ options.includeBy = [present |-> TRUE, accepts |-> Files \X {"js"}]
    /\ \E c1, c2 \in rewrites :
          /\ c1.fileName = "b.png" /\ c1.ctx = "js" /\ c1.handled
          /\ c2.fileName = "b.png" /\ c2.ctx = "css" /\ ~c2.handled

\* C12: a renderBuiltUrl call the filter accepted, with a provider, returned
\* getPublicUrl(prefix + "/" + f), or getPublicUrl(f) with an empty prefix,
\* and the tracking map holds that key for f (the scenario of the spec: prefix
\* "cdn" gives key "cdn/a.png" and https://cdn.example.com/cdn/a.png).
C12_UrlOfKey ==
    \A c \in rewrites :
        (c.handled /\ hasProvider) =>
            LET key == IF prefix = "" THEN c.fileName ELSE prefix \o "/" \o c.fileName IN
            /\ c.url = getPublicUrl(key)
            /\ c.fileName \in DOMAIN tracked
            /\ tracked[c.fileName].key = key
            /\ (prefix = "cdn" /\ c.fileName = "a.png")
                 => /\ key = "cdn/a.png"
                    /\ c.url = "https://cdn.example.com/cdn/a.png"
            /\ (prefix = "" /\ c.fileName = "a.png")
                 => /\ key = "a.png"
                    /\ c.url = "https://cdn.example.com/a.png"

\* the scenario of the spec, and a file rewritten under an empty prefix
C12_Witness ==
    /\ options.prefix = <<"cdn">>
    /\ "a.png" \in DOMAIN tracked
    /\ tracked["a.png"].key = "cdn/a.png"
    /\ \E c \in rewrites : c.fileName = "a.png" /\ c.url = "https://cdn.example.com/cdn/a.png"

\* C13: the tracking map has an entry for f exactly when a renderBuiltUrl
\* call for f was accepted by the filter with a provider configured; a call
\* the filter rejected, or made without provider, returned undefined.
C13_TrackedIffAccepted ==
    /\ \A f \in Files :
          f \in DOMAIN tracked <=> \E c \in rewrites : c.fileName = f /\ c.handled /\ hasProvider
    /\ \A c \in rewrites : (~c.handled \/ ~hasProvider) => c.url = "undefined"

\* a file tracked by one call and rejected by another, beside a file every
\* call rejected
C13_Witness ==
    \E f, g \in Files :
        /\ f \in DOMAIN tracked /\ g \notin DOMAIN tracked
        /\ \E c1, c2 \in rewrites :
              /\ c1.fileName = f /\ c1.url # "undefined"
              /\ c2.fileName = f /\ c2.url = "undefined"
        /\ \E c \in rewrites : c.fileName = g /\ c.url = "undefined"

\* C14: with clean on and a prefix that is empty or only slashes, no
\* closeBundle invocation calls provider.cleanPrefix, and every invocation
\* that takes no early return starts a task for each pending upload at once.
C14_EmptyPrefixNeverCleaned ==
    (shouldCleanRemote /\ options.prefix \in { <<>>, <<"/">> }) =>
        \A r \in RunIds :
            /\ runs[r].clean = "notCalled"
            /\ runs[r].returned = "no"
                 => /\ runs[r].assets > 0
                    /\ Len(TaskSeq(r)) = runs[r].assets
                    /\ \A k \in 1..runs[r].assets : TaskSeq(r)[k].upload # "notCalled"

\* the prefix "/" with a provider that can clean: the invocation uploaded two
\* assets and resolved
C14_Witness ==
    /\ options.prefix = <<"/">> /\ shouldCleanRemote /\ hasCleanPrefix
    /\ \E r \in RunIds :
          /\ runs[r].assets = 2 /\ runs[r].promise = "fulfilled"
          /\ \A i \in TasksOf(r) : tasks[i].upload = "ok"

\* C15: a step in which the rm call of a task rejects ends the task
\* fulfilled; and a closeBundle invocation none of whose upload calls
\* rejected is never rejected, and is fulfilled once its tasks are over,
\* whatever became of their rm calls.
C15_RmFailureNotFatal ==
    /\ [][\A i \in TaskIds : RmSettles(i, "threw") => tasks'[i].promise = "fulfilled"]_vars
    /\ [](\A r \in RunIds :
            (runs[r].assets > 0 /\ \A i \in TasksOf(r) : tasks[i].upload # "threw")
              => /\ runs[r].promise # "rejected"
                 /\ (\A i \in TasksOf(r) : tasks[i].promise # "pending")
                      => runs[r].promise = "fulfilled")

\* closeBundle resolved after two tasks, one after its upload and one after
\* a skip, went through their rm calls
C15_Witness ==
    \E r \in RunIds :
        /\ runs[r].assets = 2 /\ runs[r].promise = "fulfilled"
        /\ \E i, j \in TasksOf(r) :
              /\ tasks[i].upload = "ok" /\ tasks[i].rm = "settled"
              /\ tasks[j].skip = "true" /\ tasks[j].rm = "settled"

\* C16: while no provider is configured or configResolved has not run, every
\* generateBundle call returned at line 116 or 120 and every closeBundle
\* invocation resolved, and nothing was done: no manifest file, no manifest
\* entry, no pending upload, no cleanPrefix call and no task.
C16_NothingWithoutConfigOrProvider ==
    (~hasProvider \/ ~resolvedConfig) =>
        /\ bundled.result \in {"notCalled", "skipped"}
        /\ ~emitted /\ manifest = <<>> /\ pendingUploads = <<>>
        /\ ~cleanedRemote /\ tasks = <<>>
        /\ \A r \in RunIds :
              /\ runs[r].promise = "fulfilled"
              /\ runs[r].clean = "notCalled" /\ runs[r].assets = 0

\* before configResolved, with a provider that can clean, the manifest option
\* on and both files tracked: generateBundle and closeBundle were called
C16_Witness ==
    /\ ~resolvedConfig /\ hasCleanPrefix /\ options.manifest
    /\ DOMAIN tracked = Files
    /\ bundled.result = "skipped"
    /\ Len(runs) > 0

\* C17 as stated: a generateBundle call that came to its end emitted the
\* manifest file exactly when the manifest option is on and the tracking map
\* held an asset.
C17_EmitsIffTracked ==
    bundled.result \in {"returned", "emitted"}
        => (bundled.result = "emitted" <=> (options.manifest /\ bundled.tracked > 0))

\* C17 as amended: a generateBundle call that came to its end emitted the
\* manifest file exactly when the manifest option is on and the manifest
\* array holds an entry; a call that returned early or threw emitted nothing,
\* so a manifest file exists only with the option on and an entry.
C17_EmitsIffEntries ==
    /\ bundled.result \in {"returned", "emitted"}
         => (bundled.result = "emitted" <=> (options.manifest /\ bundled.entries > 0))
    /\ emitted => (options.manifest /\ Len(manifest) > 0)
    /\ bundled.result = "emitted" => emitted

\* the manifest file was emitted with one entry while two files were tracked
C17_Witness ==
    /\ bundled.result = "emitted"
    /\ bundled.tracked = 2 /\ bundled.entries = 1
    /\ emitted

\* C18: a closeBundle call made with config and provider and nothing pending
\* appends a resolved invocation and changes nothing else; the invocation
\* called no cleanPrefix and started no task, and while nothing is pending
\* the cleaned flag is unset and no task exists.
C18_NothingPendingIsNoop ==
    /\ [][(Len(runs') = Len(runs) + 1 /\ resolvedConfig /\ hasProvider
              /\ Len(pendingUploads) = 0)
            => /\ runs' = Append(runs, [promise |-> "fulfilled", returned |-> "skipped",
                                        clean |-> "notCalled", assets |-> 0])
               /\ UNCHANGED <<tracked, manifest, pendingUploads, cleanedRemote,
                              emitted, listed, tasks>>]_vars
    /\ [](Len(pendingUploads) = 0
            => /\ ~cleanedRemote /\ tasks = <<>>
               /\ \A r \in RunIds : runs[r].clean = "notCalled" /\ runs[r].promise = "fulfilled")

\* the last closeBundle call returned at line 163, with a provider that can
\* clean, clean on, a prefix and a tracked file
C18_Witness ==
    /\ closed = "nothingPending"
    /\ shouldCleanRemote /\ prefix # "" /\ hasCleanPrefix /\ ~isDryRun
    /\ DOMAIN tracked # {}
    /\ pendingUploads = <<>> /\ ~cleanedRemote /\ tasks = <<>>
    /\ runs[Len(runs)].promise = "fulfilled"

\* C19: with skipNotModified off, or a provider without shouldSkipUpload, no
\* task calls shouldSkipUpload and every task calls provider.upload, and an
\* invocation that reaches the upload step has one task per pending upload.
C19_NoSkipCheckUploadsAll ==
    (~shouldSkipNotModified \/ ~hasShouldSkipUpload) =>
        /\ \A i \in TaskIds : tasks[i].skip = "notCalled" /\ tasks[i].upload # "notCalled"
        /\ \A r \in RunIds :
              runs[r].assets > 0
                => /\ Len(TaskSeq(r)) = runs[r].assets
                   /\ \A k \in 1..runs[r].assets :
                         TaskSeq(r)[k].fileName = pendingUploads[k].fileName

\* skipNotModified is on and the provider has no shouldSkipUpload: both
\* pending uploads were uploaded
C19_Witness ==
    /\ shouldSkipNotModified /\ ~hasShouldSkipUpload
    /\ \E r \in RunIds :
          /\ runs[r].assets = 2 /\ runs[r].promise = "fulfilled"
          /\ \A i \in TasksOf(r) : tasks[i].skip = "notCalled" /\ tasks[i].upload = "ok"

\* the remote tag of a call exists, is no composite tag and equals the MD5 of
\* the local file whatever the case: told from the tag as getEtag gave it
TagMatchesFile(c) ==
    /\ c.file.kind = "data" /\ c.etag.kind = "string"
    /\ \E h \in { <<"a", "1">>, <<"A", "1">>, <<"b", "2">>, <<"B", "2">> } :
          /\ sanitizeEtag(c.etag.etag) = h
          /\ (h \in { <<"a", "1">>, <<"A", "1">> }) <=> (c.file.data = "d1")

\* C20: a shouldSkipUpload call of the S3 provider resolves true only when
\* the remote tag exists, is no composite tag and equals the MD5 of the local
\* file, resolves false when the local file cannot be read, getEtag fails or
\* the tag is missing or malformed, and never rejects.
C20_SkipOnlyOnMatchNeverRejects ==
    s3call.result # "notCalled" =>
        /\ s3call.result = "true" => TagMatchesFile(s3call)
        /\ ~TagMatchesFile(s3call) => s3call.result = "false"
        /\ s3call.result # "rejects"

\* the calls of an op that the cleanPrefix call made on the client
CallsOf(op) == SelectSeq(s3clean.calls, LAMBDA c : c.op = op)
\* the prefix is empty or slashes only
OnlySlashes(p) == \A i \in 1..Len(p) : p[i] = "/"
\* the pieces of the prefix that are not slashes
Scope(p) == SelectSeq(p, LAMBDA x : x # "/")

\* C21: a cleanPrefix call of the S3 provider whose prefix is empty or only
\* slashes makes no call on the client; any other makes one listObjects call
\* under the prefix followed by "/" and, when the listing resolved, exactly one
\* deleteObjects call holding exactly the listed keys if there are any, and
\* none if the listing is empty or missing.
C21_CleanPrefixListsThenDeletes ==
    s3clean.result # "notCalled" =>
        IF OnlySlashes(s3clean.prefix)
        THEN s3clean.calls = <<>>
        ELSE /\ Len(CallsOf("listObjects")) = 1
             /\ s3clean.calls[1] = ListObjects("/", Text(Scope(s3clean.prefix)) \o "/")
             /\ IF s3clean.listing.kind = "array" /\ s3clean.listing.keys # <<>>
                THEN CallsOf("deleteObjects") = << DeleteObjects(s3clean.listing.keys) >>
                ELSE CallsOf("deleteObjects") = <<>>

\* a call with a prefix written with slashes around deleted the two listed keys
C21_Witness ==
    /\ s3clean.result = "resolves"
    /\ s3clean.prefix = <<"/", "cdn", "/">>
    /\ s3clean.calls = << ListObjects("/", "cdn/"),
                          DeleteObjects(<<"cdn/a.png", "cdn/b.png">>) >>

\* C25: a closeBundle invocation whose provider.cleanPrefix call rejected is
\* rejected and started no task (no shouldSkipUpload, upload or rm call is
\* its own); the cleanedRemote flag is unset as long as no cleanPrefix call
\* resolved, and the next invocation that goes past the early returns calls
\* cleanPrefix again.
C25_CleanRejectionEndsInvocation ==
    /\ (\A r \in RunIds : runs[r].clean # "ok") => ~cleanedRemote
    /\ \A r \in RunIds :
          runs[r].clean = "threw" =>
              /\ runs[r].promise = "rejected"
              /\ runs[r].assets = 0
              /\ TasksOf(r) = {}
              /\ (r < Len(runs) /\ runs[r + 1].returned = "no")
                    => runs[r + 1].clean # "notCalled"

\* cleanPrefix rejected in the first invocation and resolved in the second,
\* which started its tasks
C25_Witness ==
    /\ Len(runs) = 2
    /\ runs[1].clean = "threw" /\ runs[1].promise = "rejected"
    /\ runs[2].clean = "ok"
    /\ TasksOf(2) # {}

\* the file names of the assets of a bundle that are tracked
TrackedAssets(bundle) ==
    { bundle[k].fileName : k \in { i \in 1..Len(bundle) :
          bundle[i].type = "asset" /\ bundle[i].fileName \in DOMAIN tracked } }

\* the entries a step appended to pendingUploads
Appended == SubSeq(pendingUploads', Len(pendingUploads) + 1, Len(pendingUploads'))

\* C26: the manifest array and the pendingUploads array have the same length,
\* and their i-th entries carry the same fileName and the same key, which is
\* the key the tracking map holds for that file name; a generateBundle call,
\* also one that contentTypeBy ends part-way, appends entries only for outputs
\* of its bundle that are assets and tracked, at most one for each.
C26_ManifestParallelsPending ==
    /\ [](/\ Len(manifest) = Len(pendingUploads)
          /\ \A i \in 1..Len(manifest) :
                /\ manifest[i].fileName = pendingUploads[i].fileName
                /\ manifest[i].key = pendingUploads[i].key
                /\ manifest[i].fileName \in DOMAIN tracked
                /\ manifest[i].key = tracked[manifest[i].fileName].key)
    /\ [][\A b \in Bundles, failAt \in 0..2 :
            generateBundle(b, failAt) =>
                /\ Len(pendingUploads') >= Len(pendingUploads)
                /\ Len(manifest') - Len(manifest) = Len(Appended)
                /\ Len(Appended) <= Cardinality(TrackedAssets(b))
                /\ \A i \in 1..Len(Appended) : Appended[i].fileName \in TrackedAssets(b)]_vars

\* contentTypeBy rejected in a generateBundle call when both files were
\* tracked, and the two arrays hold one entry each
C26_Witness ==
    /\ bundled.result = "threw"
    /\ bundled.tracked = 2
    /\ Len(manifest) = 1 /\ Len(pendingUploads) = 1

\* the closeBundle invocations that called provider.cleanPrefix
CleanCalls == {r \in RunIds : runs[r].clean # "notCalled"}

\* C22: also when closeBundle is invoked while an earlier invocation is
\* awaiting, provider.cleanPrefix is called by at most one invocation of the
\* build, and no invocation calls it once a task of the build has started.
C22_CleanGuardCannotRace ==
    /\ [](Cardinality(CleanCalls) <= 1)
    /\ [][(\E r \in 1..Len(runs') : r > Len(runs) /\ runs'[r].clean = "called")
            => Len(tasks) = 0]_vars

\* the second cleanPrefix call is awaited while an upload of the first
\* invocation has been made
C22_CleanAfterUpload ==
    \E r \in RunIds, i \in TaskIds :
        /\ runs[r].clean = "called"
        /\ tasks[i].run # r /\ tasks[i].upload = "ok"

\* C23: with the manifest option on, whenever a closeBundle invocation has
\* gone on to its cleanPrefix or upload calls, generateBundle has emitted the
\* manifest file, and the file lists every pending upload the invocation
\* handles, whatever becomes of the asset.
C23_ManifestBeforeUploads ==
    options.manifest =>
        \A r \in RunIds :
            runs[r].returned = "no" =>
                /\ emitted
                /\ listed >= runs[r].assets
                /\ runs[r].clean = "called" => listed >= Len(pendingUploads)

\* an asset was uploaded in a build with the manifest option on that emitted
\* no manifest file
C23_UploadedUnlisted ==
    /\ options.manifest /\ ~emitted
    /\ \E i \in TaskIds : tasks[i].upload = "ok"

\* some closeBundle invocation of the build cleaned the prefix
Cleaned == \E r \in RunIds : runs[r].clean = "ok"

SameCalls == twin.phase = 2 /\ twin.calls = twin.first.calls

\* C27: a plugin instance that differs from another in the flags delete,
\* clean, skipNotModified and dryRun only, and is given the same
\* renderBuiltUrl, configResolved and generateBundle calls, returns the same
\* from every call and holds the same tracking map, manifest array and
\* pending uploads.
C27_FlagsLeaveRewritingAlone ==
    SameCalls =>
        /\ twin.returned = twin.first.returned
        /\ tracked = twin.first.tracked
        /\ manifest = twin.first.manifest
        /\ pendingUploads = twin.first.pendingUploads

\* a dry run without clean, delete and skipNotModified was given the three
\* calls of an instance with the default flags, which left an upload pending
C27_Witness ==
    /\ SameCalls
    /\ options.dryRun /\ ~options.clean /\ ~options.delete /\ ~options.skipNotModified
    /\ Len(twin.calls) = 3
    /\ Len(pendingUploads) = 1
    /\ twin.returned[3] = "emitted"

\* C28: once the status prop has stopped changing, the displayed
\* currentStatus comes to equal the normalized value of the prop and
\* isTransitioning comes back to false, for good.
C28_DisplayFollowsProp ==
    <>[](/\ indicator.currentStatus = normalizeStatus(indicator.status)
         /\ ~indicator.isTransitioning)

\* every timer has fired and the display shows another status than the prop
C28_StuckOnStaleStatus ==
    /\ indicator.setting = <<>> /\ indicator.ending = 0
    /\ indicator.currentStatus # normalizeStatus(indicator.status)

\* C29: isSending and isTyping are true while a sendMessage call of the store
\* is in flight and false when none is.
C29_FlagsCoverCallsInFlight ==
    /\ InFlight(chatStore) # {} => (chatStore.isSending /\ chatStore.isTyping)
    /\ InFlight(chatStore) = {} => (~chatStore.isSending /\ ~chatStore.isTyping)

\* C30: every message ChatInterface appended in sendMessage is in the
\* displayed list, and has status 'sent' once its 500 ms timer has fired.
C30_SentMessageStays ==
    \A k \in 1..chatInterface.sent :
        \E i \in 1..Len(chatInterface.messageList) :
            /\ chatInterface.messageList[i].id = <<"msg", k>>
            /\ (\A t \in 1..Len(chatInterface.timers) : chatInterface.timers[t] # <<"msg", k>>)
                  => chatInterface.messageList[i].status = "sent"
====
